---- MODULE Spec2Model ----
(***************************************************************************)
(* A model of the two MCP adapters of this repository:                     *)
(*   src/src/gmail/server.py       (GmailService, main and its handlers)   *)
(*   src/src/theirstack/server.py  (JobStackAPI, main and its handlers)    *)
(*                                                                         *)
(* One process runs one adapter.  main first performs the start-up of the  *)
(* adapter (token acquisition, service construction and profile fetch for  *)
(* the mail adapter; config loading for the job adapter) and only then     *)
(* enters the transport loop, in which the registered handlers run.        *)
(***************************************************************************)
EXTENDS Integers, Sequences, FiniteSets, TLC

VARIABLES
    adapter,        \* "gmail" | "jobstack": which server.py this process runs
    pc,             \* position of main (and of _get_token inside it)
    tokenFile,      \* content of the file at token_path
    loaded,         \* what Credentials.from_authorized_user_file returned
    token,          \* the local variable `token` of _get_token
    self_token,     \* GmailService.token
    service,        \* GmailService.service has been built
    user_email,     \* GmailService.user_email has been fetched
    refreshCalls,   \* token.refresh(Request()) calls made
    consentCalls,   \* flow.run_local_server(port=0) calls made
    fileWrites,     \* writes of the token file made
    config,         \* content of the file at api_config_path
    api_key,        \* JobStackAPI.api_key
    cached_jobs,    \* JobStackAPI.cached_jobs
    request,        \* the request the transport loop has read and not yet answered
    reply,          \* what the handler of that request produced
    inflight,       \* the tool calls in flight on the event loop, each at its await
    writers         \* the threads that have stored into cached_jobs

vars == <<adapter, pc, tokenFile, loaded, token, self_token, service, user_email,
          refreshCalls, consentCalls, fileWrites, config, api_key, cached_jobs, request, reply,
          inflight, writers>>

callVars == <<inflight, writers>>

authVars == <<tokenFile, loaded, token, self_token, service, user_email,
              refreshCalls, consentCalls, fileWrites>>

(***************************************************************************)
(* Tokens.  A token is what google.oauth2.credentials.Credentials holds:   *)
(* an access token (or none), whether its expiry has passed, and whether   *)
(* it carries a refresh token.                                             *)
(***************************************************************************)
NoToken == [kind |-> "none", access |-> "none", expired |-> FALSE, refresh |-> FALSE]

CorruptFile == [kind |-> "corrupt", access |-> "none", expired |-> FALSE, refresh |-> FALSE]

Tok(a, e, r) == [kind |-> "token", access |-> a, expired |-> e, refresh |-> r]

PersistedTokens == {Tok(a, e, r) : a \in {"none", "persisted"}, e \in BOOLEAN, r \in BOOLEAN}

TokenFiles == {NoToken, CorruptFile} \cup PersistedTokens

\* token.valid: an access token is present and it is not expired
Valid(t) == t.access # "none" /\ ~t.expired

\* `not token or not token.valid`
NeedsNewTokenAlways(t) == TRUE

NeedsNewToken(t) == t = NoToken \/ ~Valid(t)

\* `token and token.expired and token.refresh_token`
CanRefreshIgnoringExpiry(t) == t # NoToken /\ t.refresh

CanRefresh(t) == t # NoToken /\ t.expired /\ t.refresh

\* token.to_json() followed by a later from_authorized_user_file: the file keeps
\* the access token, the expiry and the refresh token of the credentials
ToJson(t) == Tok(t.access, t.expired, t.refresh)


EmptyCache == [i \in {} |-> 0]

(***************************************************************************)
(* Start-up of the job adapter: main of theirstack/server.py.              *)
(***************************************************************************)
\* what open(api_config_path) and json.load can find
ConfigFiles == {"unreadable", "no_key", "empty_key", "key"}

\* `api_key = config.get('api_key'); if not api_key: raise ValueError`
ConfigKeyOkUnlessUnreadable(c) == c # "unreadable"

ConfigKeyOk(c) == c = "key"

ConfigKey(c) == IF c = "key" THEN "key" ELSE ""

LoadConfig ==
    /\ adapter = "jobstack"
    /\ pc = "load_config"
    /\ IF ConfigKeyOk(config)
         THEN /\ api_key' = ConfigKey(config)
              /\ cached_jobs' = EmptyCache
              /\ pc' = "serving"
         ELSE /\ pc' = "failed"
              /\ UNCHANGED <<api_key, cached_jobs>>
    /\ UNCHANGED callVars
    /\ UNCHANGED <<adapter, config, request, reply>>
    /\ UNCHANGED authVars

(***************************************************************************)
(* Start-up of the mail adapter: GmailService.__init__, called by main     *)
(* before the server object exists.  _get_token is followed statement by   *)
(* statement.                                                              *)
(***************************************************************************)
\* lines 184-188: `token = None`, then the load when the path exists
LoadToken ==
    /\ adapter = "gmail"
    /\ pc = "load_token"
    /\ IF tokenFile = CorruptFile
         THEN /\ pc' = "failed"
              /\ UNCHANGED <<token, loaded>>
         ELSE /\ token' = tokenFile
              /\ loaded' = tokenFile
              /\ pc' = "check_token"
    /\ UNCHANGED callVars
    /\ UNCHANGED <<adapter, tokenFile, self_token, service, user_email, refreshCalls,
                   consentCalls, fileWrites, config, api_key, cached_jobs, request, reply>>

\* lines 190-191 and 194: which branch _get_token takes
CheckToken ==
    /\ pc = "check_token"
    /\ pc' = IF NeedsNewToken(token)
               THEN IF CanRefresh(token) THEN "refresh" ELSE "consent"
               ELSE "return_token"
    /\ UNCHANGED callVars
    /\ UNCHANGED <<adapter, config, api_key, cached_jobs, request, reply>>
    /\ UNCHANGED authVars

\* an exception raised by token.refresh is caught nowhere in _get_token, __init__ or main
AfterRefreshFailureFallback == "consent"

AfterRefreshFailure == "failed"

\* lines 193 and 199: the write follows both branches of the inner `if`
NextAfterRefreshSkipsWrite == "return_token"

NextAfterRefresh == "write_token"

\* line 193: token.refresh(Request()) updates the credentials in place
Refresh ==
    /\ pc = "refresh"
    /\ refreshCalls' = refreshCalls + 1
    /\ \E ok \in BOOLEAN :
         IF ok THEN /\ token' = Tok("refreshed", FALSE, TRUE)
                    /\ pc' = NextAfterRefresh
               ELSE /\ pc' = AfterRefreshFailure
                    /\ UNCHANGED token
    /\ UNCHANGED callVars
    /\ UNCHANGED <<adapter, tokenFile, loaded, self_token, service, user_email,
                   consentCalls, fileWrites, config, api_key, cached_jobs, request, reply>>

\* lines 196-197: the flow is built from the client secrets, then run
Consent ==
    /\ pc = "consent"
    /\ \E outcome \in {"ok", "no_client_secrets", "flow_error"}, r \in BOOLEAN :
         /\ consentCalls' = IF outcome = "no_client_secrets" THEN consentCalls
                            ELSE consentCalls + 1
         /\ IF outcome = "ok"
              THEN /\ token' = Tok("consented", FALSE, r)
                   /\ pc' = "write_token"
              ELSE /\ pc' = "failed"
                   /\ UNCHANGED token
    /\ UNCHANGED callVars
    /\ UNCHANGED <<adapter, tokenFile, loaded, self_token, service, user_email,
                   refreshCalls, fileWrites, config, api_key, cached_jobs, request, reply>>

\* lines 199-201: open(token_path, 'w') truncates, then the JSON is written
FileKept(file, t) == file

FileAfterWrite(file, t) == ToJson(t)

WriteToken ==
    /\ pc = "write_token"
    /\ tokenFile' = FileAfterWrite(tokenFile, token)
    /\ fileWrites' = fileWrites + 1
    /\ pc' = "return_token"
    /\ UNCHANGED callVars
    /\ UNCHANGED <<adapter, loaded, token, self_token, service, user_email,
                   refreshCalls, consentCalls, config, api_key, cached_jobs, request, reply>>

\* line 203 and line 174: `return token`, `self.token = self._get_token()`
ReturnToken ==
    /\ pc = "return_token"
    /\ self_token' = token
    /\ pc' = "get_service"
    /\ UNCHANGED callVars
    /\ UNCHANGED <<adapter, tokenFile, loaded, token, service, user_email,
                   refreshCalls, consentCalls, fileWrites, config, api_key, cached_jobs, request, reply>>

\* line 176: an HttpError of build() is re-raised as ValueError
GetService ==
    /\ pc = "get_service"
    /\ \E ok \in BOOLEAN :
         IF ok THEN service' = TRUE /\ pc' = "get_user_email"
               ELSE pc' = "failed" /\ UNCHANGED service
    /\ UNCHANGED callVars
    /\ UNCHANGED <<adapter, tokenFile, loaded, token, self_token, user_email,
                   refreshCalls, consentCalls, fileWrites, config, api_key, cached_jobs, request, reply>>

\* a failing getProfile request raises out of __init__ and main
AfterProfileFailure == "failed"

\* line 178: getProfile().execute() is not guarded
GetUserEmail ==
    /\ pc = "get_user_email"
    /\ \E ok \in BOOLEAN :
         IF ok THEN user_email' = TRUE /\ pc' = "serving"
               ELSE pc' = AfterProfileFailure /\ UNCHANGED user_email
    /\ UNCHANGED callVars
    /\ UNCHANGED <<adapter, tokenFile, loaded, token, self_token, service,
                   refreshCalls, consentCalls, fileWrites, config, api_key, cached_jobs, request, reply>>

(***************************************************************************)
(* Requests.  A tool call carries a name and an argument mapping; a key    *)
(* that is absent from the mapping is absent from its DOMAIN.              *)
(***************************************************************************)
MaxCap == 3          \* largest max_results a caller passes explicitly
MaxJobId == 2        \* job ids are 0..MaxJobId
MaxPages == 2        \* pages a listing may need in the dispatch specification
MaxPageSize == 1     \* items on one page in the dispatch specification
MaxFilterArgs == 2   \* keys present in a create-filter call

DefaultMaxResults == 50

JobIds == 0..MaxJobId

(***************************************************************************)
(* Text.  A str is a sequence of characters over a small alphabet; the     *)
(* element "Subject:" stands for the eight characters of that literal,     *)
(* "nl" for the line feed and " " for a blank.                             *)
(***************************************************************************)
MaxArgText == 1      \* length of a subject or message in the dispatch specification

Chars == {"Subject:", " ", "nl", "a"}

Whitespace == {" ", "nl"}

Texts(n) == UNION {[1..len -> Chars] : len \in 0..n}

\* the subjects a caller passes: no character of theirs occurs in a message
Subjects == {<<>>, <<"b">>}

RECURSIVE Split(_)
\* str.split('\n'): the lines of text, at least one
Split(text) ==
    IF \A i \in 1..Len(text) : text[i] # "nl" THEN <<text>>
    ELSE LET i == CHOOSE j \in 1..Len(text) :
                     text[j] = "nl" /\ \A h \in 1..(j - 1) : text[h] # "nl"
         IN  <<SubSeq(text, 1, i - 1)>> \o Split(SubSeq(text, i + 1, Len(text)))

RECURSIVE Join(_)
\* '\n'.join(lines)
Join(lines) ==
    IF Len(lines) = 0 THEN <<>>
    ELSE IF Len(lines) = 1 THEN lines[1]
    ELSE lines[1] \o <<"nl">> \o Join(Tail(lines))

RECURSIVE LStrip(_)
LStrip(text) ==
    IF Len(text) > 0 /\ text[1] \in Whitespace THEN LStrip(Tail(text)) ELSE text

RECURSIVE RStrip(_)
RStrip(text) ==
    IF Len(text) > 0 /\ text[Len(text)] \in Whitespace
      THEN RStrip(SubSeq(text, 1, Len(text) - 1)) ELSE text

\* str.strip()
Strip(text) == RStrip(LStrip(text))

\* str.startswith('Subject:')
StartsWithSubject(line) == Len(line) > 0 /\ line[1] = "Subject:"

\* line[8:], for a line that starts with the eight characters 'Subject:'
AfterSubject(line) == Tail(line)

EmptyArgs == [k \in {} |-> ""]

IntKeys == {"max_results", "job_id", "size", "max_age_days"}
BoolKeys == {"has_attachment", "exclude_chats"}
ListKeys == {"add_label_ids", "remove_label_ids", "technologies", "countries"}
TextKeys == {"subject", "message"}

\* the values a caller may send under key k
ArgDomain(k) ==
    CASE k = "max_results" -> 0..MaxCap
      [] k = "job_id" -> JobIds
      [] k = "size" -> {0, 5}
      [] k = "max_age_days" -> {7}
      [] k \in BoolKeys -> BOOLEAN
      [] k \in ListKeys -> {<<>>, <<"x">>}
      [] k = "subject" -> Subjects
      [] k = "message" -> Texts(MaxArgText)
      [] k = "size_comparison" -> {"", "larger", "smaller", "LARGER", "equal"}
      [] OTHER -> {"", "v"}

\* Python's `not value` for a value sent under key k
Falsy(k, v) ==
    CASE k \in IntKeys -> v = 0
      [] k \in BoolKeys -> v = FALSE
      [] k \in ListKeys -> v = <<>>
      [] k \in TextKeys -> v = <<>>
      [] OTHER -> v = ""

Has(args, k) == k \in DOMAIN args

\* `not arguments.get(k)`
Missing(args, k) == ~Has(args, k) \/ Falsy(k, args[k])

With(args, k, v) == [x \in DOMAIN args \cup {k} |-> IF x = k THEN v ELSE args[x]]

RECURSIVE ArgMaps(_, _)
\* every argument mapping over a subset of `keys` with at most n keys present
ArgMaps(keys, n) ==
    IF keys = {} \/ n = 0 THEN {EmptyArgs}
    ELSE LET k == CHOOSE x \in keys : TRUE
             without == ArgMaps(keys \ {k}, n)
             fewer == ArgMaps(keys \ {k}, n - 1)
         IN  without \cup {With(m, k, v) : m \in fewer, v \in ArgDomain(k)}

(***************************************************************************)
(* The tool catalog and the dispatcher of the mail adapter.                *)
(***************************************************************************)
\* the names handle_list_tools advertises
GmailTools ==
    {"send-email", "trash-email", "get-unread-emails", "read-email", "mark-email-as-read",
     "open-email", "create-draft", "list-drafts", "list-labels", "create-label",
     "apply-label", "remove-label", "search-by-label", "list-filters", "get-filter",
     "create-filter", "delete-filter", "search-emails", "create-folder", "move-to-folder",
     "list-folders"}

\* the names a branch of handle_call_tool compares `name` with
GmailDispatchedWithDefault == GmailTools \cup {"no-such-tool", "search-jobs"}

GmailDispatched ==
    {"send-email", "get-unread-emails", "read-email", "open-email", "trash-email",
     "mark-email-as-read", "create-draft", "list-drafts", "list-labels", "create-label",
     "apply-label", "remove-label", "search-by-label", "list-filters", "get-filter",
     "create-filter", "delete-filter", "search-emails", "create-folder", "move-to-folder",
     "list-folders"}

\* the "required" list of each tool's inputSchema
GmailRequired(name) ==
    CASE name \in {"send-email", "create-draft"} -> {"recipient_id", "subject", "message"}
      [] name \in {"trash-email", "read-email", "mark-email-as-read", "open-email"} -> {"email_id"}
      [] name \in {"create-label", "create-folder"} -> {"name"}
      [] name \in {"apply-label", "remove-label"} -> {"email_id", "label_id"}
      [] name = "search-by-label" -> {"label_id"}
      [] name \in {"get-filter", "delete-filter"} -> {"filter_id"}
      [] name = "search-emails" -> {"query"}
      [] name = "move-to-folder" -> {"email_id", "folder_id"}
      [] OTHER -> {}

FilterKeys ==
    {"from_email", "to_email", "subject", "query", "has_attachment", "exclude_chats",
     "size_comparison", "size", "add_label_ids", "remove_label_ids", "forward_to"}

\* the keys the branch of `name` reads with arguments.get
GmailKeys(name) ==
    CASE name = "create-filter" -> FilterKeys
      [] name = "search-emails" -> {"query", "max_results"}
      [] OTHER -> GmailRequired(name)

\* the keys the branch of `name` tests with `if not ...: raise ValueError`
GmailCheckedNoEmailId(name) ==
    CASE name \in {"send-email", "create-draft"} -> {"recipient_id", "subject", "message"}
      [] name \in {"read-email", "mark-email-as-read", "open-email"} -> {"email_id"}
      [] name \in {"create-label", "create-folder"} -> {"name"}
      [] name \in {"apply-label", "remove-label"} -> {"label_id"}
      [] name = "search-by-label" -> {"label_id"}
      [] name \in {"get-filter", "delete-filter"} -> {"filter_id"}
      [] name = "search-emails" -> {"query"}
      [] name = "move-to-folder" -> {"folder_id"}
      [] OTHER -> {}

GmailChecked(name) ==
    CASE name \in {"send-email", "create-draft"} -> {"recipient_id", "subject", "message"}
      [] name \in {"trash-email", "read-email", "mark-email-as-read", "open-email"} -> {"email_id"}
      [] name \in {"create-label", "create-folder"} -> {"name"}
      [] name \in {"apply-label", "remove-label"} -> {"email_id", "label_id"}
      [] name = "search-by-label" -> {"label_id"}
      [] name \in {"get-filter", "delete-filter"} -> {"filter_id"}
      [] name = "search-emails" -> {"query"}
      [] name = "move-to-folder" -> {"email_id", "folder_id"}
      [] OTHER -> {}

\* line 1433: the test of the create-filter branch
FilterRejected(args) ==
    /\ \A k \in {"from_email", "to_email", "subject", "query"} : Missing(args, k)
    /\ \A k \in FilterKeys \ {"from_email", "to_email", "subject", "query"} : ~Has(args, k)

\* the branch of `name` raises ValueError before it calls the wrapper
GmailRejected(name, args) ==
    IF name = "create-filter" THEN FilterRejected(args)
    ELSE \E k \in GmailChecked(name) : Missing(args, k)

\* the GmailService method the branch of `name` awaits
GmailMethod(name) ==
    CASE name = "send-email" -> "send_email"
      [] name = "get-unread-emails" -> "get_unread_emails"
      [] name = "read-email" -> "read_email"
      [] name = "open-email" -> "open_email"
      [] name = "trash-email" -> "trash_email"
      [] name = "mark-email-as-read" -> "mark_email_as_read"
      [] name = "create-draft" -> "create_draft"
      [] name = "list-drafts" -> "list_drafts"
      [] name = "list-labels" -> "list_labels"
      [] name = "create-label" -> "create_label"
      [] name = "apply-label" -> "apply_label"
      [] name = "remove-label" -> "remove_label"
      [] name = "search-by-label" -> "search_by_label"
      [] name = "list-filters" -> "list_filters"
      [] name = "get-filter" -> "get_filter"
      [] name = "create-filter" -> "create_filter"
      [] name = "delete-filter" -> "delete_filter"
      [] name = "search-emails" -> "search_emails"
      [] name = "create-folder" -> "create_folder"
      [] name = "move-to-folder" -> "move_to_folder"
      [] name = "list-folders" -> "list_folders"
      [] OTHER -> "none"


(***************************************************************************)
(* The provider behind GmailService.service: a stub transport.  It answers *)
(* a listing with a finite sequence of pages; every page but the last      *)
(* carries a nextPageToken.  A page holds n message ids; `key` says        *)
(* whether the response has a 'messages' entry at all (Gmail omits it on   *)
(* an empty page).  failAt = k > 0 makes the k-th request of the call fail *)
(* with an HttpError.                                                      *)
(***************************************************************************)
Page(n, key) == [n |-> n, key |-> key]

PagesOf(maxPages, maxSize) ==
    UNION {[1..len -> {Page(n, key) : n \in 0..maxSize, key \in BOOLEAN}] : len \in 1..maxPages}

\* a page with items has a 'messages' entry
WellFormedPages(pages) == \A i \in 1..Len(pages) : pages[i].n > 0 => pages[i].key

Providers(maxPages, maxSize, maxFail) ==
    {[pages |-> ps, failAt |-> f] :
        ps \in {q \in PagesOf(maxPages, maxSize) : WellFormedPages(q)}, f \in 0..maxFail}

NoPages == <<Page(0, FALSE)>>

RECURSIVE Offset(_, _)
\* the number of messages on the pages before page i
Offset(pages, i) == IF i <= 1 THEN 0 ELSE Offset(pages, i - 1) + pages[i - 1].n

\* response['messages'] of page i: the ids are numbered in provider order
Items(pages, i) == [j \in 1..pages[i].n |-> Offset(pages, i) + j]

RECURSIVE Concat(_, _)
\* the messages of pages 1..i in page order
Concat(pages, i) == IF i = 0 THEN <<>> ELSE Concat(pages, i - 1) \o Items(pages, i)

HasNextPageToken(pages, i) == i < Len(pages)

\* the labels of the message a call is about, before the call
InboxOnly == {"INBOX"}

\* no filter_object was built
NoFilter == [criteria |-> {}, action |-> {}, sizeComparison |-> ""]

\* what a GmailService method hands back to the dispatcher; `labels` and `filter` are
\* what the provider holds after the call
Returned(shape, items, remote, listReqs) ==
    [outcome |-> "returned", shape |-> shape, items |-> items, remote |-> remote,
     listReqs |-> listReqs, labels |-> InboxOnly, filter |-> NoFilter]

\* `except HttpError`: the methods answering with a list or a dict return a string
HttpErrorText(remote, listReqs) == Returned("error_text", <<>>, remote, listReqs)

\* an exception that is no HttpError leaves the method and the handler
Raised(remote, listReqs) ==
    [outcome |-> "raised", shape |-> "none", items |-> <<>>, remote |-> remote,
     listReqs |-> listReqs, labels |-> InboxOnly, filter |-> NoFilter]

\* messages.extend(response['messages']) of a later page
Extend(messages, pages, i) == messages \o Items(pages, i)

RECURSIVE UnguardedLoop(_, _, _, _)
\* lines 264-269 and 473-484: `while 'nextPageToken' in response`, after i requests
UnguardedLoop(prov, i, messages, listReqs) ==
    IF ~HasNextPageToken(prov.pages, i) THEN Returned("list", messages, i, listReqs)
    ELSE IF prov.failAt = i + 1 THEN HttpErrorText(i + 1, Append(listReqs, 0))
    ELSE IF ~prov.pages[i + 1].key THEN Raised(i + 1, Append(listReqs, 0))
    ELSE UnguardedLoop(prov, i + 1, Extend(messages, prov.pages, i + 1), Append(listReqs, 0))

\* lines 254-272: get_unread_emails; lines 462-486: search_by_label
get_unread_emails(prov) ==
    IF prov.failAt = 1 THEN HttpErrorText(1, <<0>>)
    ELSE UnguardedLoop(prov, 1,
                       IF prov.pages[1].key THEN Items(prov.pages, 1) ELSE <<>>, <<0>>)

search_by_label(prov) == get_unread_emails(prov)

\* line 632: the test of the loop of search_emails
MorePagesNeededInclusive(prov, i, messages, max_results) ==
    HasNextPageToken(prov.pages, i) /\ Len(messages) <= max_results

MorePagesNeeded(prov, i, messages, max_results) ==
    HasNextPageToken(prov.pages, i) /\ Len(messages) < max_results

RECURSIVE FetchMetadata(_, _, _, _, _)
\* lines 646-672: one messages.get per listed message, k of them done
FetchMetadata(prov, messages, listReqs, k, remote) ==
    IF k = Len(messages) THEN Returned("list", messages, remote, listReqs)
    ELSE IF prov.failAt = remote + 1 THEN HttpErrorText(remote + 1, listReqs)
    ELSE FetchMetadata(prov, messages, listReqs, k + 1, remote + 1)

RECURSIVE SearchLoop(_, _, _, _, _)
\* lines 632-643: after i list requests
SearchLoop(prov, max_results, i, messages, listReqs) ==
    IF ~MorePagesNeeded(prov, i, messages, max_results)
      THEN FetchMetadata(prov, messages, listReqs, 0, i)
    ELSE LET asked == Append(listReqs, max_results - Len(messages)) IN
         IF prov.failAt = i + 1 THEN HttpErrorText(i + 1, asked)
         ELSE SearchLoop(prov, max_results, i + 1,
                         IF prov.pages[i + 1].key THEN Extend(messages, prov.pages, i + 1)
                                                  ELSE messages,
                         asked)

\* lines 616-675: search_emails; listReqs holds the maxResults of every list request
search_emails(prov, max_results) ==
    IF prov.failAt = 1 THEN HttpErrorText(1, <<max_results>>)
    ELSE SearchLoop(prov, max_results, 1,
                    IF prov.pages[1].key THEN Items(prov.pages, 1) ELSE <<>>,
                    <<max_results>>)

\* line 1449: arguments.get("max_results", 50)
MaxResultsOf(args) == IF Has(args, "max_results") THEN args["max_results"] ELSE DefaultMaxResults

\* lines 356-384: one drafts.list, then one drafts.get per listed draft
list_drafts(prov) ==
    LET drafts == IF prov.pages[1].key THEN Items(prov.pages, 1) ELSE <<>>
        total == 1 + Len(drafts)
    IN  IF prov.failAt \in 1..total THEN HttpErrorText(prov.failAt, <<>>)
        ELSE Returned("list", drafts, total, <<>>)

\* the labels of an unread message
UnreadInInbox == {"INBOX", "UNREAD"}

\* messages.modify with body {'addLabelIds': add, 'removeLabelIds': remove}
Modify(labels, add, remove) == (labels \cup add) \ remove

\* lines 324-331: the modify request removes UNREAD unless it fails; the method's
\* return value says which, the labels are what the provider holds afterwards
mark_email_as_read(labels, fails) ==
    IF fails THEN labels ELSE Modify(labels, {}, {"UNREAD"})

\* lines 276-313: messages.get, then mark_email_as_read, whose own HttpError is
\* turned into a string inside mark_email_as_read and dropped
read_email(prov) ==
    IF prov.failAt = 1 THEN [HttpErrorText(1, <<>>) EXCEPT !.labels = UnreadInInbox]
    ELSE [Returned("dict", <<>>, 2, <<>>)
            EXCEPT !.labels = mark_email_as_read(UnreadInInbox, prov.failAt = 2)]

StatusMethods == {"send_email", "create_draft", "create_label", "create_filter", "create_folder"}

ListMethods == {"list_labels", "list_filters", "list_folders"}

\* the methods that make one request and catch its HttpError
single_request(method, prov) ==
    IF prov.failAt = 1
      THEN IF method \in StatusMethods THEN Returned("status_error", <<>>, 1, <<>>)
           ELSE HttpErrorText(1, <<>>)
    ELSE Returned(CASE method \in StatusMethods -> "status_success"
                    [] method \in ListMethods -> "list"
                    [] method = "get_filter" -> "dict"
                    [] OTHER -> "text",
                  IF method \in ListMethods /\ prov.pages[1].key
                    THEN Items(prov.pages, 1) ELSE <<>>,
                  1, <<>>)

\* lines 722-735: move_to_folder makes one modify request that carries both changes
move_to_folder(prov) ==
    IF prov.failAt = 1 THEN HttpErrorText(1, <<>>)
    ELSE [Returned("text", <<>>, 1, <<>>)
            EXCEPT !.labels = Modify(InboxOnly, {"folder"}, {"INBOX"})]

\* str.lower() on the values a caller sends as size_comparison
Lower(v) == IF v = "LARGER" THEN "larger" ELSE v

\* `if value:` on the parameter the dispatcher filled with arguments.get(k)
Truthy(args, k) == ~Missing(args, k)

\* lines 540-552: the size test of create_filter
SizeKeysWithoutSize(args) ==
    IF Truthy(args, "size_comparison") THEN {"sizeComparison", "size"} ELSE {}

SizeKeys(args) ==
    IF Truthy(args, "size_comparison") /\ Truthy(args, "size")
         /\ Lower(args["size_comparison"]) \in {"larger", "smaller"}
      THEN {"sizeComparison", "size"} ELSE {}

\* lines 537-552: criteria
Criteria(args) ==
    {k \in {"from", "to", "subject", "query"} :
        Truthy(args, CASE k = "from" -> "from_email" [] k = "to" -> "to_email" [] OTHER -> k)}
      \cup (IF Has(args, "has_attachment") THEN {"hasAttachment"} ELSE {})
      \cup (IF Has(args, "exclude_chats") THEN {"excludeChats"} ELSE {})
      \cup SizeKeys(args)

\* lines 555-561: action
Action(args) ==
    (IF Truthy(args, "add_label_ids") THEN {"addLabelIds"} ELSE {})
      \cup (IF Truthy(args, "remove_label_ids") THEN {"removeLabelIds"} ELSE {})
      \cup (IF Truthy(args, "forward_to") THEN {"forward"} ELSE {})

\* lines 564-567: filter_object
FilterObject(args) ==
    [criteria |-> Criteria(args), action |-> Action(args),
     sizeComparison |-> IF "sizeComparison" \in Criteria(args)
                          THEN Lower(args["size_comparison"]) ELSE ""]

\* lines 536-588: create_filter sends filter_object in one request
create_filter(args, prov) ==
    [single_request("create_filter", prov) EXCEPT !.filter = FilterObject(args)]

\* the call of GmailService.<method> made by the dispatcher
GmailCall(method, args, prov) ==
    CASE method = "get_unread_emails" -> get_unread_emails(prov)
      [] method = "search_by_label" -> search_by_label(prov)
      [] method = "search_emails" -> search_emails(prov, MaxResultsOf(args))
      [] method = "list_drafts" -> list_drafts(prov)
      [] method = "read_email" -> read_email(prov)
      [] method = "open_email" -> Returned("text", <<>>, 0, <<>>)
      [] method = "move_to_folder" -> move_to_folder(prov)
      [] method = "create_filter" -> create_filter(args, prov)
      [] OTHER -> single_request(method, prov)

\* the tools whose branch forwards the wrapper's return value as artifact data
ArtifactTools ==
    {"get-unread-emails", "read-email", "list-drafts", "list-labels", "search-by-label",
     "list-filters", "get-filter", "search-emails", "list-folders"}

\* artifact={"type": ..., "data": value}: the value is forwarded as it was returned
Artifact(name, shape) == IF name \in ArtifactTools THEN shape ELSE "none"

\* the methods that run their requests through asyncio.to_thread
OffloadedMethods ==
    {"send_email", "create_draft", "list_drafts", "list_labels", "create_label",
     "apply_label", "remove_label", "search_by_label", "list_filters", "get_filter",
     "create_filter", "delete_filter", "search_emails", "create_folder", "move_to_folder",
     "list_folders"}

\* the requests of a call that ran request.execute() on the event-loop thread
Blocking(method, remote) == IF method \in OffloadedMethods THEN 0 ELSE remote

\* the subject and message a branch passes to send_email or create_draft
NoCall == [subject |-> <<>>, message |-> <<>>]

\* lines 1316-1321: the first line of the message may carry the subject
SendEmailArgsUnstripped(subject, message) ==
    LET email_lines == Split(message) IN
    IF StartsWithSubject(email_lines[1])
      THEN [subject |-> AfterSubject(email_lines[1]),
            message |-> Join(Tail(email_lines))]
      ELSE [subject |-> subject, message |-> message]

SendEmailArgs(subject, message) ==
    LET email_lines == Split(message) IN
    IF StartsWithSubject(email_lines[1])
      THEN [subject |-> Strip(AfterSubject(email_lines[1])),
            message |-> Strip(Join(Tail(email_lines)))]
      ELSE [subject |-> subject, message |-> message]

\* lines 1364-1370: create-draft passes its arguments on as they are
CreateDraftArgs(subject, message) == [subject |-> subject, message |-> message]

\* the arguments of the wrapper call made by the branch of `name`
WrapperArgs(name, args) ==
    CASE name = "send-email" -> SendEmailArgs(args["subject"], args["message"])
      [] name = "create-draft" -> CreateDraftArgs(args["subject"], args["message"])
      [] OTHER -> NoCall


(***************************************************************************)
(* The job provider: what the POST to /jobs/search answers.                *)
(***************************************************************************)
MaxJobs == 2         \* jobs in one search response
MaxSearchArgs == 1   \* keys present in a search-jobs call

\* an entry of raw_data["data"]: a dict (whose extraction may raise: bad), or a value
\* that is not a dict, on which the handler's own job_data.get raises
NotADict == [id |-> 0, bad |-> TRUE, isDict |-> FALSE]

\* a dict whose extraction raises: it is skipped whatever it holds
BadJob == [id |-> 0, bad |-> TRUE, isDict |-> TRUE]

JobData == [id : JobIds, bad : {FALSE}, isDict : {TRUE}] \cup {BadJob, NotADict}

JobLists == UNION {[1..len -> JobData] : len \in 0..MaxJobs}

\* _save_to_json runs os.makedirs outside its try: the first or the second snapshot of
\* a call may raise, depending on the output directory at that moment
SaveOutcomes == {"saved", "first_raises", "second_raises"}

Responses ==
    {[status |-> "200", hasData |-> TRUE, jobs |-> js, save |-> sv] :
        js \in JobLists, sv \in SaveOutcomes}
      \cup {[status |-> st, hasData |-> FALSE, jobs |-> <<>>, save |-> "saved"] :
               st \in {"200", "500", "exception"}}

NoResponse == [status |-> "none", hasData |-> FALSE, jobs |-> <<>>, save |-> "saved"]

\* self.cached_jobs[full_job.id] = full_job
CacheReplace(cache, id) == [i \in {id} |-> id]

CachePut(cache, id) == [i \in DOMAIN cache \cup {id} |-> i]

\* compact_jobs[:10]
ListedLimit == 10

Listed(compact) ==
    SubSeq(compact, 1, IF Len(compact) < ListedLimit THEN Len(compact) ELSE ListedLimit)

RECURSIVE ProcessJobs(_, _, _, _)
\* lines 277-292: the loop over raw_data["data"]; a job whose extraction raises is
\* skipped, and an entry that is not a dict ends the loop with the exception of the handler
ProcessJobs(jobs, k, cache, compact) ==
    IF k > Len(jobs) THEN [cache |-> cache, compact |-> compact, raised |-> FALSE]
    ELSE IF ~jobs[k].isDict THEN [cache |-> cache, compact |-> compact, raised |-> TRUE]
    ELSE IF jobs[k].bad THEN ProcessJobs(jobs, k + 1, cache, compact)
    ELSE ProcessJobs(jobs, k + 1, CachePut(cache, jobs[k].id), Append(compact, jobs[k].id))

\* lines 265-324: search_jobs makes one POST and answers a dict in every case
search_jobs(cache, resp) ==
    IF resp.status = "200" /\ resp.save # "first_raises"
      THEN LET done == ProcessJobs(resp.jobs, 1, cache, <<>>) IN
           IF done.raised \/ resp.save = "second_raises"
             THEN [cache |-> done.cache, shape |-> "error_dict", items |-> <<>>, remote |-> 1]
             ELSE [cache |-> done.cache, shape |-> "dict", items |-> Listed(done.compact),
                   remote |-> 1]
      ELSE [cache |-> cache, shape |-> "error_dict", items |-> <<>>, remote |-> 1]

\* lines 326-328
get_cached_job_or_any(cache, job_id) == cache # EmptyCache

get_cached_job(cache, job_id) == job_id \in DOMAIN cache

JobTools == {"search-jobs", "get-job-details", "analyze-job-match"}

\* the names a branch of handle_call_tool compares `name` with
JobDispatchedWithoutAnalysis == {"search-jobs", "get-job-details"}

JobDispatched == {"search-jobs", "get-job-details", "analyze-job-match"}

JobRequired(name) == IF name \in {"get-job-details", "analyze-job-match"} THEN {"job_id"} ELSE {}

JobKeys(name) ==
    IF name = "search-jobs" THEN {"technologies", "countries", "max_age_days"}
    ELSE JobRequired(name)

\* `if not job_id: raise ValueError("Missing job_id")`
JobRejected(name, args) ==
    name \in {"get-job-details", "analyze-job-match"} /\ Missing(args, "job_id")

(***************************************************************************)
(* The prompt registries.                                                  *)
(***************************************************************************)
GmailPrompts ==
    {"manage-email", "draft-email", "edit-draft", "manage-labels", "manage-filters",
     "search-emails", "manage-folders"}

JobPrompts == {"search-jobs", "job-application"}

PromptsOf(a) == IF a = "gmail" THEN GmailPrompts ELSE JobPrompts

ToolsOf(a) == IF a = "gmail" THEN GmailTools ELSE JobTools

(***************************************************************************)
(* The transport loop: it reads one request, runs its handler, and writes  *)
(* the answer.                                                             *)
(***************************************************************************)
NoRequest == [kind |-> "none", name |-> "", args |-> EmptyArgs, hasArgs |-> FALSE]

NoProvider == [pages |-> NoPages, failAt |-> 0]

NoReply == [outcome |-> "none", wrapper |-> "none", remote |-> 0, shape |-> "none",
            items |-> <<>>, listReqs |-> <<>>, prov |-> NoProvider, resp |-> NoResponse,
            call |-> NoCall, labels |-> InboxOnly, filter |-> NoFilter, artifact |-> "none",
            blocking |-> 0]

ToolNames == GmailTools \cup JobTools \cup {"no-such-tool"}

PromptNames == GmailPrompts \cup JobPrompts \cup {"no-such-prompt"}

\* the argument mappings a caller may send with a call of `name`
ToolArgs(a, name) ==
    IF a = "gmail"
      THEN IF name = "create-filter" THEN ArgMaps(FilterKeys, MaxFilterArgs)
           ELSE IF name \in GmailTools THEN ArgMaps(GmailKeys(name), 3)
           ELSE ArgMaps({"job_id"}, 1)
      ELSE IF name = "search-jobs" THEN ArgMaps(JobKeys(name), MaxSearchArgs)
           ELSE IF name \in JobTools THEN ArgMaps(JobKeys(name), 1)
           ELSE ArgMaps({"email_id"}, 1)

ToolRequests(a) ==
    UNION {{[kind |-> "call_tool", name |-> n, args |-> m, hasArgs |-> TRUE] :
               m \in ToolArgs(a, n)} : n \in ToolNames}

\* the arguments of a get_prompt request are strings; some branches pass one to int()
PromptArgs ==
    {EmptyArgs} \cup {With(EmptyArgs, k, v) : k \in {"max_age_days", "job_id"}, v \in {"7", "x"}}

\* a get_prompt request without arguments reaches the handler with arguments = None
PromptRequests ==
    {[kind |-> "get_prompt", name |-> n, args |-> EmptyArgs, hasArgs |-> FALSE] :
        n \in PromptNames}
      \cup {[kind |-> "get_prompt", name |-> n, args |-> m, hasArgs |-> TRUE] :
               n \in PromptNames, m \in PromptArgs}

CatalogRequests ==
    {[kind |-> k, name |-> "", args |-> EmptyArgs, hasArgs |-> FALSE] :
        k \in {"list_prompts", "list_tools"}}

Requests(a) ==
    ToolRequests(a) \cup PromptRequests \cup CatalogRequests

GmailRequests == Requests("gmail")

JobRequests == Requests("jobstack")

\* the requests a client may send to adapter a
RequestsTo(a) == IF a = "gmail" THEN GmailRequests ELSE JobRequests

\* the requests are read from the stream only while server.run is running
Receive(reqs) ==
    /\ pc = "serving"
    /\ request = NoRequest
    /\ \E r \in reqs : request' = r
    /\ UNCHANGED callVars
    /\ UNCHANGED <<adapter, pc, config, api_key, cached_jobs, reply>>
    /\ UNCHANGED authVars

Answer(outcome, wrapper, r, prov, resp) ==
    [outcome |-> outcome, wrapper |-> wrapper, remote |-> r.remote, shape |-> r.shape,
     items |-> r.items, listReqs |-> r.listReqs, prov |-> prov, resp |-> resp,
     call |-> NoCall, labels |-> r.labels, filter |-> r.filter, artifact |-> "none",
     blocking |-> Blocking(wrapper, r.remote)]

Failure(outcome) ==
    [outcome |-> outcome, wrapper |-> "none", remote |-> 0, shape |-> "none",
     items |-> <<>>, listReqs |-> <<>>, prov |-> NoProvider, resp |-> NoResponse,
     call |-> NoCall, labels |-> InboxOnly, filter |-> NoFilter, artifact |-> "none",
     blocking |-> 0]


\* lines 1299-1476 of gmail/server.py: handle_call_tool, with the provider's behaviour
GmailCallTool(provs) ==
    /\ adapter = "gmail"
    /\ request.kind = "call_tool"
    /\ reply = NoReply
    /\ IF request.name \notin GmailDispatched
         THEN reply' = Failure("unknown_tool")
         ELSE IF GmailRejected(request.name, request.args)
         THEN reply' = Failure("precondition_error")
         ELSE \E prov \in provs :
                LET method == GmailMethod(request.name)
                    r == GmailCall(method, request.args, prov)
                    a == Answer(IF r.outcome = "raised" THEN "raised" ELSE "result",
                                method, r, prov, NoResponse)
                IN  reply' = [a EXCEPT !.call = WrapperArgs(request.name, request.args),
                                       !.artifact = IF r.outcome = "raised" THEN "none"
                                                    ELSE Artifact(request.name, r.shape)]
    /\ UNCHANGED callVars
    /\ UNCHANGED <<adapter, pc, config, api_key, cached_jobs, request>>
    /\ UNCHANGED authVars

\* lines 464-551 of theirstack/server.py: handle_call_tool, with the provider's answer
JobCallTool ==
    /\ adapter = "jobstack"
    /\ request.kind = "call_tool"
    /\ reply = NoReply
    /\ IF request.name \notin JobDispatched
         THEN reply' = Failure("unknown_tool") /\ UNCHANGED cached_jobs
         ELSE IF JobRejected(request.name, request.args)
         THEN reply' = Failure("precondition_error") /\ UNCHANGED cached_jobs
         ELSE IF request.name = "search-jobs"
         THEN \E resp \in Responses :
                LET r == search_jobs(cached_jobs, resp) IN
                /\ cached_jobs' = r.cache
                /\ reply' = [Failure("result") EXCEPT
                               !.wrapper = "search_jobs", !.remote = r.remote,
                               !.shape = r.shape, !.items = r.items, !.resp = resp]
         ELSE /\ reply' = [Failure("result") EXCEPT
                               !.wrapper = "get_cached_job",
                               !.shape = IF get_cached_job(cached_jobs, request.args["job_id"])
                                           THEN "job_text" ELSE "not_found_text"]
              /\ UNCHANGED cached_jobs
    /\ UNCHANGED callVars
    /\ UNCHANGED <<adapter, pc, config, api_key, request>>
    /\ UNCHANGED authVars

\* the prompts whose branch of get_prompt reads `arguments`
ReadsArguments(a, name) == ~(a = "gmail" /\ name = "manage-email")

\* the names a branch of get_prompt compares `name` with
GmailPromptBranches ==
    {"manage-email", "draft-email", "edit-draft", "manage-labels", "manage-filters",
     "search-emails", "manage-folders"}

JobPromptBranches == {"search-jobs", "job-application"}

PromptBranches(a) == IF a = "gmail" THEN GmailPromptBranches ELSE JobPromptBranches

\* the argument that the branch of `name` passes to int(), "none" if it parses nothing
ParsedKey(a, name) ==
    IF a = "gmail" THEN "none"
    ELSE IF name = "search-jobs" THEN "max_age_days" ELSE "job_id"

\* int(v) returns for the decimal strings and raises ValueError for the others
IsIntText(v) == v = "7"

\* int(arguments.get(key, default)) raises
ParseFails(a, name, args) ==
    Has(args, ParsedKey(a, name)) /\ ~IsIntText(args[ParsedKey(a, name)])

\* lines 774-943 of gmail/server.py and 349-405 of theirstack/server.py: get_prompt
GetPrompt ==
    /\ request.kind = "get_prompt"
    /\ reply = NoReply
    /\ reply' = IF request.name \notin PromptsOf(adapter) THEN Failure("not_found")
                ELSE IF request.name \notin PromptBranches(adapter)
                  THEN Failure("no_implementation")
                ELSE IF ReadsArguments(adapter, request.name) /\ ~request.hasArgs
                  THEN Failure("raised")
                ELSE IF ParseFails(adapter, request.name, request.args)
                  THEN Failure("raised")
                ELSE [Failure("result") EXCEPT !.shape = "prompt"]
    /\ UNCHANGED callVars
    /\ UNCHANGED <<adapter, pc, config, api_key, cached_jobs, request>>
    /\ UNCHANGED authVars

\* list_prompts and handle_list_tools return the static catalogs
ListCatalog ==
    /\ request.kind \in {"list_prompts", "list_tools"}
    /\ reply = NoReply
    /\ reply' = [Failure("result") EXCEPT !.shape = request.kind]
    /\ UNCHANGED callVars
    /\ UNCHANGED <<adapter, pc, config, api_key, cached_jobs, request>>
    /\ UNCHANGED authVars

\* the answer (a result or a protocol error) is written to the stream
Reply ==
    /\ reply # NoReply
    /\ request' = NoRequest
    /\ reply' = NoReply
    /\ UNCHANGED callVars
    /\ UNCHANGED <<adapter, pc, config, api_key, cached_jobs>>
    /\ UNCHANGED authVars

MaxFail == 3         \* the latest request of a call that the provider may fail

\* the providers of a paginated listing, of a one-page listing, and of a single request
PagingProviders == Providers(MaxPages, MaxPageSize, MaxFail)

ListingProviders == Providers(1, MaxPageSize, 2)

SingleProviders == {[pages |-> NoPages, failAt |-> f] : f \in 0..2}

\* the provider behaviours tried with a call of `name`
ProvidersFor(name) ==
    IF name \in {"get-unread-emails", "search-by-label", "search-emails"}
      THEN PagingProviders
    ELSE IF name \in {"list-drafts", "list-labels", "list-filters", "list-folders"}
      THEN ListingProviders
    ELSE SingleProviders

(***************************************************************************)
(* Several tool calls in flight on the event loop of the job adapter.  A   *)
(* handler runs until its next await.  The awaits of search_jobs are the   *)
(* POST (267), response.json() (269) or response.text() (319) and the exit *)
(* of the two `async with` blocks; the detail branches have none.          *)
(***************************************************************************)
MaxTasks == 2        \* tool calls in flight together

Tasks == 1..MaxTasks

DetailTools == {"get-job-details", "analyze-job-match"}

IdleCall ==
    [pc |-> "idle", name |-> "", job_id |-> 0, jobs |-> <<>>, k |-> 0, save |-> "saved",
     shape |-> "none", stored |-> {}, sawPartial |-> FALSE]

NoCalls == [t \in Tasks |-> IdleCall]

InterleaveRequests ==
    {[IdleCall EXCEPT !.pc = "start", !.name = "search-jobs"]}
      \cup {[IdleCall EXCEPT !.pc = "start", !.name = n, !.job_id = j] :
               n \in DetailTools, j \in JobIds}

\* what the POST of line 267 comes back with
PostOutcomes == {"200", "500", "exception"}

\* no method of JobStackAPI is handed to a worker thread
JobOffloaded == {}

ThreadOf(method) == IF method \in JobOffloaded THEN "worker_thread" ELSE "event_loop"

RECURSIVE LoopRun(_, _, _, _, _)
\* lines 277-292 run from the entry after k up to the entry `last`
LoopRun(jobs, k, last, cache, puts) ==
    IF k >= last THEN [cache |-> cache, k |-> k, puts |-> puts, raised |-> FALSE]
    ELSE IF ~jobs[k + 1].isDict THEN [cache |-> cache, k |-> k, puts |-> puts, raised |-> TRUE]
    ELSE IF jobs[k + 1].bad THEN LoopRun(jobs, k + 1, last, cache, puts)
    ELSE LoopRun(jobs, k + 1, last, CachePut(cache, jobs[k + 1].id),
                 puts \cup {jobs[k + 1].id})

StepEndSuspending(jobs, k) == IF k < Len(jobs) THEN k + 1 ELSE k

\* the loop holds no await: entered after entry k, it runs to the last entry in one step
StepEnd(jobs, k) == Len(jobs)

\* the ids the loop of call c has still to store
ToStore(c) == LoopRun(c.jobs, c.k, Len(c.jobs), EmptyCache, {}).puts

\* cached_jobs holds some of the jobs of the response of call c and lacks others
Partial(c) == c.pc = "processing" /\ c.stored # {} /\ ~(ToStore(c) \subseteq c.stored)

ReceiveCall(t) ==
    /\ inflight[t].pc = "idle"
    /\ \E c \in InterleaveRequests : inflight' = [inflight EXCEPT ![t] = c]
    /\ UNCHANGED <<cached_jobs, writers>>
    /\ UNCHANGED <<pc, config, api_key, request, reply>>
    /\ UNCHANGED <<adapter, authVars>>

\* handle_call_tool 467-473 and search_jobs 239-267, up to the await of the POST
Post(t) ==
    /\ inflight[t].pc = "start"
    /\ inflight[t].name = "search-jobs"
    /\ inflight' = [inflight EXCEPT ![t].pc = "posting"]
    /\ UNCHANGED <<cached_jobs, writers>>
    /\ UNCHANGED <<pc, config, api_key, request, reply>>
    /\ UNCHANGED <<adapter, authVars>>

\* lines 267-269, 319: the POST is answered; the body is awaited next
Respond(t) ==
    /\ inflight[t].pc = "posting"
    /\ \E st \in PostOutcomes :
         inflight' = [inflight EXCEPT ![t] =
            CASE st = "200" -> [@ EXCEPT !.pc = "reading_json"]
              [] st = "500" -> [@ EXCEPT !.pc = "reading_text"]
              [] OTHER -> [@ EXCEPT !.pc = "closing", !.shape = "error_dict"]]
    /\ UNCHANGED <<cached_jobs, writers>>
    /\ UNCHANGED <<pc, config, api_key, request, reply>>
    /\ UNCHANGED <<adapter, authVars>>

\* lines 319-321
ReadText(t) ==
    /\ inflight[t].pc = "reading_text"
    /\ inflight' = [inflight EXCEPT ![t] = [@ EXCEPT !.pc = "closing", !.shape = "error_dict"]]
    /\ UNCHANGED <<cached_jobs, writers>>
    /\ UNCHANGED <<pc, config, api_key, request, reply>>
    /\ UNCHANGED <<adapter, authVars>>

\* lines 269-317: from the body of the response to the return value
Process(t) ==
    LET c == inflight[t] IN
    /\ c.pc \in {"reading_json", "processing"}
    /\ \E sv \in (IF c.pc = "reading_json" THEN SaveOutcomes ELSE {c.save}) :
       \E jobs \in (IF c.pc = "processing" THEN {c.jobs}
                     ELSE IF sv = "first_raises" THEN {<<>>} ELSE JobLists) :
         IF c.pc = "reading_json" /\ sv = "first_raises"
           THEN /\ inflight' = [inflight EXCEPT ![t] =
                                  [c EXCEPT !.pc = "closing", !.shape = "error_dict"]]
                /\ UNCHANGED <<cached_jobs, writers>>
           ELSE LET run == LoopRun(jobs, c.k, StepEnd(jobs, c.k), cached_jobs, c.stored)
                    ended == run.raised \/ run.k = Len(jobs)
                IN  /\ cached_jobs' = run.cache
                    /\ writers' = IF run.puts = c.stored THEN writers
                                  ELSE writers \cup {ThreadOf("search_jobs")}
                    /\ inflight' = [inflight EXCEPT ![t] =
                         IF ended
                           THEN [c EXCEPT !.pc = "closing", !.jobs = <<>>, !.k = 0,
                                          !.save = "saved", !.stored = run.puts,
                                          !.shape = IF run.raised \/ sv = "second_raises"
                                                      THEN "error_dict" ELSE "dict"]
                           ELSE [c EXCEPT !.pc = "processing", !.jobs = jobs, !.k = run.k,
                                          !.save = sv, !.stored = run.puts]]
    /\ UNCHANGED <<pc, config, api_key, request, reply>>
    /\ UNCHANGED <<adapter, authVars>>

\* the exit of the `async with` blocks, then handle_call_tool 474-482
Close(t) ==
    /\ inflight[t].pc = "closing"
    /\ inflight' = [inflight EXCEPT ![t].pc = "done"]
    /\ UNCHANGED <<cached_jobs, writers>>
    /\ UNCHANGED <<pc, config, api_key, request, reply>>
    /\ UNCHANGED <<adapter, authVars>>

\* handle_call_tool 484-548: a detail branch, which holds no await
Detail(t) ==
    LET c == inflight[t] IN
    /\ c.pc = "start"
    /\ c.name \in DetailTools
    /\ inflight' = [inflight EXCEPT ![t] =
         [c EXCEPT !.pc = "done",
                   !.shape = IF JobRejected(c.name, With(EmptyArgs, "job_id", c.job_id))
                               THEN "precondition_error"
                             ELSE IF get_cached_job(cached_jobs, c.job_id)
                               THEN "job_text" ELSE "not_found_text",
                   !.sawPartial = \E s \in Tasks : Partial(inflight[s])]]
    /\ UNCHANGED <<cached_jobs, writers>>
    /\ UNCHANGED <<pc, config, api_key, request, reply>>
    /\ UNCHANGED <<adapter, authVars>>

\* the answer is written to the transport
Finish(t) ==
    /\ inflight[t].pc = "done"
    /\ inflight' = [inflight EXCEPT ![t] = IdleCall]
    /\ UNCHANGED <<cached_jobs, writers>>
    /\ UNCHANGED <<pc, config, api_key, request, reply>>
    /\ UNCHANGED <<adapter, authVars>>

InitInterleave ==
    /\ adapter = "jobstack"
    /\ pc = "serving"
    /\ tokenFile = NoToken
    /\ loaded = NoToken
    /\ token = NoToken
    /\ self_token = NoToken
    /\ service = FALSE
    /\ user_email = FALSE
    /\ refreshCalls = 0
    /\ consentCalls = 0
    /\ fileWrites = 0
    /\ config = "key"
    /\ api_key = ConfigKey(config)
    /\ cached_jobs = EmptyCache
    /\ request = NoRequest
    /\ reply = NoReply
    /\ inflight = NoCalls
    /\ writers = {}

NextInterleave ==
    \/ \E t \in Tasks : ReceiveCall(t)
    \/ \E t \in Tasks : Post(t)
    \/ \E t \in Tasks : Respond(t)
    \/ \E t \in Tasks : ReadText(t)
    \/ \E t \in Tasks : Process(t)
    \/ \E t \in Tasks : Close(t)
    \/ \E t \in Tasks : Detail(t)
    \/ \E t \in Tasks : Finish(t)

SpecInterleave == InitInterleave /\ [][NextInterleave]_vars

Startup ==
    \/ LoadConfig
    \/ LoadToken
    \/ CheckToken
    \/ Refresh
    \/ Consent
    \/ WriteToken
    \/ ReturnToken
    \/ GetService
    \/ GetUserEmail

InitStart ==
    /\ adapter \in {"gmail", "jobstack"}
    /\ pc = IF adapter = "gmail" THEN "load_token" ELSE "load_config"
    /\ tokenFile \in IF adapter = "gmail" THEN TokenFiles ELSE {NoToken}
    /\ config \in IF adapter = "jobstack" THEN ConfigFiles ELSE {"unreadable"}
    /\ loaded = NoToken
    /\ token = NoToken
    /\ self_token = NoToken
    /\ service = FALSE
    /\ user_email = FALSE
    /\ refreshCalls = 0
    /\ consentCalls = 0
    /\ fileWrites = 0
    /\ api_key = ""
    /\ cached_jobs = EmptyCache
    /\ request = NoRequest
    /\ reply = NoReply
    /\ inflight = NoCalls
    /\ writers = {}

Next ==
    \/ Startup
    \/ Receive(RequestsTo(adapter))
    \/ GmailCallTool(ProvidersFor(request.name))
    \/ JobCallTool
    \/ GetPrompt
    \/ ListCatalog
    \/ Reply

Spec == InitStart /\ [][Next]_vars

(***************************************************************************)
(* The pagination loops on their own: one call of a paginated operation,   *)
(* received by a mail adapter that started with a valid token, against     *)
(* every provider of up to PMaxPages pages.                                *)
(***************************************************************************)
PMaxPages == 3       \* pages of a listing
PMaxSize == 2        \* items on one page
PMaxFail == 4        \* the latest request of the call that may fail

PagedTools == {"get-unread-emails", "search-by-label", "search-emails"}

PagedRequests ==
    {r \in GmailRequests :
        /\ r.kind = "call_tool"
        /\ r.name \in PagedTools
        /\ ~GmailRejected(r.name, r.args)}

PagedProviders == Providers(PMaxPages, PMaxSize, PMaxFail)

InitPages ==
    /\ adapter = "gmail"
    /\ pc = "serving"
    /\ tokenFile = Tok("persisted", FALSE, TRUE)
    /\ loaded = tokenFile
    /\ token = tokenFile
    /\ self_token = tokenFile
    /\ service = TRUE
    /\ user_email = TRUE
    /\ refreshCalls = 0
    /\ consentCalls = 0
    /\ fileWrites = 0
    /\ config = "unreadable"
    /\ api_key = ""
    /\ cached_jobs = EmptyCache
    /\ request \in PagedRequests
    /\ reply = NoReply
    /\ inflight = NoCalls
    /\ writers = {}

NextPages ==
    \/ GmailCallTool(PagedProviders)
    \/ Reply

SpecPages == InitPages /\ [][NextPages]_vars

(***************************************************************************)
(* The composing tools on their own: one send-email or create-draft call   *)
(* with every message of up to MaxText characters.                         *)
(***************************************************************************)
MaxText == 5         \* length of a message

ComposeTools == {"send-email", "create-draft"}

ComposeRequests ==
    {[kind |-> "call_tool", name |-> n, hasArgs |-> TRUE,
      args |-> With(With(With(EmptyArgs, "recipient_id", "v"), "subject", sub), "message", m)] :
        n \in ComposeTools, sub \in Subjects, m \in Texts(MaxText)}

InitCompose ==
    /\ adapter = "gmail"
    /\ pc = "serving"
    /\ tokenFile = Tok("persisted", FALSE, TRUE)
    /\ loaded = tokenFile
    /\ token = tokenFile
    /\ self_token = tokenFile
    /\ service = TRUE
    /\ user_email = TRUE
    /\ refreshCalls = 0
    /\ consentCalls = 0
    /\ fileWrites = 0
    /\ config = "unreadable"
    /\ api_key = ""
    /\ cached_jobs = EmptyCache
    /\ request \in ComposeRequests
    /\ reply = NoReply
    /\ inflight = NoCalls
    /\ writers = {}

NextCompose ==
    \/ GmailCallTool(SingleProviders)
    \/ Reply

SpecCompose == InitCompose /\ [][NextCompose]_vars

(***************************************************************************)
(* Properties.                                                             *)
(***************************************************************************)
RequiredOf(a, name) == IF a = "gmail" THEN GmailRequired(name) ELSE JobRequired(name)

\* a handler has just produced the answer to a tool call
Handled == request.kind = "call_tool" /\ reply = NoReply /\ reply' # NoReply

MissingRequired ==
    /\ request.name \in ToolsOf(adapter)
    /\ \E k \in RequiredOf(adapter, request.name) : Missing(request.args, k)

\* C1: a call of a registered tool in which a required argument is absent from the
\* argument mapping or empty fails with a precondition error, without any wrapper
\* method being invoked, with zero remote requests and with the job cache unchanged.
C1_MissingArgumentRejected ==
    [][(Handled /\ MissingRequired) =>
         /\ reply'.outcome = "precondition_error"
         /\ reply'.wrapper = "none"
         /\ reply'.remote = 0
         /\ cached_jobs' = cached_jobs]_vars

C1_Witness ==
    /\ adapter = "jobstack"
    /\ cached_jobs # EmptyCache
    /\ request.kind = "call_tool"
    /\ request.name = "analyze-job-match"
    /\ Has(request.args, "job_id")
    /\ MissingRequired
    /\ reply.outcome = "precondition_error"

C1_WitnessMail ==
    /\ adapter = "gmail"
    /\ request.kind = "call_tool"
    /\ request.name = "send-email"
    /\ ~Missing(request.args, "recipient_id")
    /\ ~Missing(request.args, "subject")
    /\ Has(request.args, "message")
    /\ MissingRequired
    /\ reply.outcome = "precondition_error"

\* C2: a call whose name is not a registered tool of the adapter fails with an
\* unknown-tool error, invokes no wrapper method, issues no remote request and leaves
\* the job cache unchanged.
C2_UnknownToolRejected ==
    [][(Handled /\ request.name \notin ToolsOf(adapter)) =>
         /\ reply'.outcome = "unknown_tool"
         /\ reply'.wrapper = "none"
         /\ reply'.remote = 0
         /\ cached_jobs' = cached_jobs]_vars

C2_Witness ==
    /\ adapter = "gmail"
    /\ request.kind = "call_tool"
    /\ request.name = "search-jobs"
    /\ reply.outcome = "unknown_tool"

C2_WitnessJobs ==
    /\ adapter = "jobstack"
    /\ cached_jobs # EmptyCache
    /\ request.kind = "call_tool"
    /\ request.name \notin JobTools
    /\ reply.outcome = "unknown_tool"

\* _get_token has reached its `return token`
AtReturn ==
    adapter = "gmail" /\ pc \in {"return_token", "get_service", "get_user_email", "serving"}

\* _get_token has returned and self.token is assigned
TokenReturned == adapter = "gmail" /\ pc \in {"get_service", "get_user_email", "serving"}

LoadedValid == loaded.kind = "token" /\ Valid(loaded)

LoadedExpiredRefreshable == loaded.kind = "token" /\ loaded.expired /\ loaded.refresh

\* C3: with a valid, non-expired token at the token path, _get_token makes no refresh
\* request, runs no consent flow and returns exactly the loaded token.
C3_ValidTokenReturnedUnchanged ==
    LoadedValid =>
        /\ refreshCalls = 0
        /\ consentCalls = 0
        /\ pc \notin {"refresh", "consent", "write_token"}
        /\ TokenReturned => self_token = loaded

C3_Witness == LoadedValid /\ pc = "get_service" /\ self_token = loaded

\* C4: with an expired token that carries a refresh credential, _get_token makes exactly
\* one refresh request, runs no consent flow, and has written the refreshed token to the
\* token path when it returns it.
C4_ExpiredTokenRefreshedOnce ==
    LoadedExpiredRefreshable =>
        /\ consentCalls = 0
        /\ pc # "consent"
        /\ refreshCalls <= 1
        /\ AtReturn =>
             /\ refreshCalls = 1
             /\ token.access = "refreshed"
             /\ fileWrites = 1
             /\ tokenFile = ToJson(token)
        /\ TokenReturned => self_token = token

C4_Witness ==
    /\ LoadedExpiredRefreshable
    /\ pc = "return_token"
    /\ refreshCalls = 1
    /\ tokenFile = ToJson(token)
    /\ tokenFile # loaded

\* C5 as stated: a persisted token that is invalid and carries a refresh credential is
\* refreshed, and the consent flow runs only without a persisted token or without a
\* refresh credential.
C5_RefreshWheneverInvalid ==
    /\ (loaded.kind = "token" /\ ~Valid(loaded) /\ loaded.refresh) =>
           (pc # "consent" /\ consentCalls = 0)
    /\ pc = "consent" => (loaded = NoToken \/ ~loaded.refresh)

\* C5 as amended: the token is refreshed exactly when it is present, expired and carries
\* a refresh credential; in every other case in which no valid token was loaded (no
\* persisted token, no refresh credential, or an invalid token that is not expired) the
\* consent flow is run.
C5_RefreshOnlyWhenExpired ==
    pc \notin {"load_token", "check_token"} /\ adapter = "gmail" /\ tokenFile # CorruptFile =>
        /\ LoadedExpiredRefreshable =>
             /\ pc = "refresh" \/ refreshCalls = 1
             /\ pc # "consent" /\ consentCalls = 0
        /\ (~LoadedValid /\ ~LoadedExpiredRefreshable) =>
             /\ pc # "refresh" /\ refreshCalls = 0
             /\ pc \in {"consent", "failed"} \/ consentCalls = 1
        /\ LoadedValid =>
             /\ pc \notin {"refresh", "consent"}
             /\ refreshCalls = 0 /\ consentCalls = 0

C5_Witness ==
    /\ loaded = Tok("none", FALSE, TRUE)
    /\ consentCalls = 1
    /\ refreshCalls = 0
    /\ pc = "write_token"

\* C6 as stated: whenever _get_token returns a token, that token has been written to the
\* token path before the return.
C6_EveryReturnWritten == AtReturn => fileWrites >= 1

\* C6 as amended: a token obtained by a refresh or by the consent flow has been written
\* to the token path, replacing its content, before it is returned; a loaded token that
\* is valid is returned without any write of the token path.
C6_NewTokenWrittenBeforeReturn ==
    AtReturn =>
        IF NeedsNewToken(loaded)
          THEN fileWrites = 1 /\ tokenFile = ToJson(token) /\ token # loaded
          ELSE fileWrites = 0 /\ tokenFile = loaded /\ token = loaded

C6_Witness ==
    /\ pc = "return_token"
    /\ consentCalls = 1
    /\ fileWrites = 1
    /\ loaded.kind = "token"
    /\ tokenFile = ToJson(token)

\* C7: a failing refresh request or consent flow ends the construction of GmailService
\* and main: nothing is attempted a second time, a failed refresh is not followed by the
\* consent flow, and the token file is not written.
C7_AcquisitionFailureIsFatal ==
    /\ refreshCalls + consentCalls <= 1
    /\ (refreshCalls + consentCalls = 1 /\ pc \notin {"failed"}) =>
           token.access \in {"refreshed", "consented"}
    /\ (pc = "failed" /\ self_token = NoToken) =>
           /\ fileWrites = 0
           /\ tokenFile \in {loaded, CorruptFile}
           /\ ~service /\ ~user_email
           /\ request = NoRequest /\ reply = NoReply

C7_Witness ==
    /\ pc = "failed"
    /\ refreshCalls = 1
    /\ token = loaded
    /\ fileWrites = 0

\* the start-up of the adapter has succeeded
StartupSucceeded ==
    IF adapter = "gmail"
      THEN Valid(self_token) /\ service /\ user_email
      ELSE api_key # ""

\* C8: a request (list-prompts, get-prompt, list-tools, call-tool) is read and handled only
\* after the start-up succeeded; a failed start-up never reaches the transport loop.
C8_ServesOnlyAfterStartup ==
    /\ (request # NoRequest \/ reply # NoReply) => (pc = "serving" /\ StartupSucceeded)
    /\ pc = "serving" => StartupSucceeded

C8_Witness ==
    /\ adapter = "gmail"
    /\ refreshCalls = 1
    /\ request.kind = "list_tools"
    /\ reply.outcome = "result"

\* the pages the provider of the handled call holds, and the messages on pages 1..i
PagesSeen == reply.prov.pages

Accumulated(pages, i) == Offset(pages, i + 1)

Total(pages) == Accumulated(pages, Len(pages))

\* a paginated operation was called and the provider failed none of its requests
PagedCallAnswered ==
    /\ request.kind = "call_tool"
    /\ request.name \in PagedTools
    /\ reply # NoReply
    /\ reply.prov.failAt = 0
    /\ request.name = "search-emails" => MaxResultsOf(request.args) >= Total(PagesSeen)

\* C9: for get_unread_emails, search_by_label, and search_emails with a cap not smaller than
\* the total, the result is the concatenation of the items of all pages in page order, and
\* exactly one list request is issued per page.
C9_PagesConcatenated ==
    PagedCallAnswered =>
        /\ reply.outcome = "result"
        /\ reply.shape = "list"
        /\ reply.items = Concat(PagesSeen, Len(PagesSeen))
        /\ Len(reply.listReqs) = Len(PagesSeen)

\* the case C9 is about, reached where the code handles it: three pages, all with items
C9_Witness ==
    /\ PagedCallAnswered
    /\ request.name = "get-unread-emails"
    /\ Len(PagesSeen) = 3
    /\ \A i \in 1..3 : PagesSeen[i].n > 0
    /\ reply.items = Concat(PagesSeen, 3)

\* C9 restricted to providers whose pages all hold at least one item
C9_HoldsOnNonEmptyPages ==
    (PagedCallAnswered /\ \A i \in 1..Len(PagesSeen) : PagesSeen[i].n > 0) =>
        /\ reply.outcome = "result"
        /\ reply.items = Concat(PagesSeen, Len(PagesSeen))
        /\ Len(reply.listReqs) = Len(PagesSeen)

\* search_emails was called; its list requests asked for reply.listReqs[1], [2], ...
SearchAnswered ==
    /\ request.kind = "call_tool"
    /\ request.name = "search-emails"
    /\ reply # NoReply
    /\ reply.wrapper = "search_emails"

\* every page answered held at most the number of items its request asked for
PagesWithinRequested ==
    \A i \in 1..Len(reply.listReqs) :
        reply.prov.failAt # i => PagesSeen[i].n <= reply.listReqs[i]

\* the list phase ended without a failed list request
ListPhaseCompleted == reply.prov.failAt = 0 \/ reply.prov.failAt > Len(reply.listReqs)

\* C10: search_emails asks for a further page only while the last response carried a
\* continuation token and fewer than max_results items are accumulated, and stops at the
\* first response for which that fails; if no page holds more items than were asked for,
\* the returned list has at most max_results entries and every follow-up request asks for
\* max_results - len(accumulated), a positive count.
C10_SearchStopsAtCap ==
    SearchAnswered =>
        LET cap == MaxResultsOf(request.args)
            reqs == reply.listReqs
        IN  /\ reqs[1] = cap
            /\ \A i \in 2..Len(reqs) :
                 /\ HasNextPageToken(PagesSeen, i - 1)
                 /\ Accumulated(PagesSeen, i - 1) < cap
            /\ ListPhaseCompleted =>
                 \/ ~HasNextPageToken(PagesSeen, Len(reqs))
                 \/ Accumulated(PagesSeen, Len(reqs)) >= cap
            /\ PagesWithinRequested =>
                 /\ reply.shape = "list" => Len(reply.items) <= cap
                 /\ \A i \in 2..Len(reqs) :
                      /\ reqs[i] = cap - Accumulated(PagesSeen, i - 1)
                      /\ reqs[i] > 0

\* the cap is reached while the provider still offers a further page
C10_Witness ==
    /\ SearchAnswered
    /\ PagesWithinRequested
    /\ reply.shape = "list"
    /\ Len(reply.listReqs) = 2
    /\ Len(PagesSeen) = 3
    /\ Len(reply.items) = MaxResultsOf(request.args)
    /\ reply.listReqs[2] = 1

\* the branch of tool `name` called its wrapper and the call returned
WrapperAnswered(name) ==
    /\ request.kind = "call_tool"
    /\ request.name = name
    /\ reply.outcome = "result"

\* y is x without its leading and its trailing whitespace
IsTrimOf(y, x) ==
    \E i \in 1..(Len(x) + 1), j \in 0..Len(x) :
        /\ y = SubSeq(x, i, j)
        /\ \A h \in 1..(i - 1) : x[h] \in Whitespace
        /\ \A h \in (j + 1)..Len(x) : x[h] \in Whitespace
        /\ y # <<>> => y[1] \notin Whitespace /\ y[Len(y)] \notin Whitespace

\* the position of the first line feed of m, or one past its end
FirstLineEnd(m) ==
    IF \E i \in 1..Len(m) : m[i] = "nl"
      THEN CHOOSE i \in 1..Len(m) : m[i] = "nl" /\ \A h \in 1..(i - 1) : m[h] # "nl"
      ELSE Len(m) + 1

FirstLine(m) == SubSeq(m, 1, FirstLineEnd(m) - 1)

RemainingLines(m) == SubSeq(m, FirstLineEnd(m) + 1, Len(m))

HasSubjectLine(m) == Len(FirstLine(m)) > 0 /\ FirstLine(m)[1] = "Subject:"

\* the subject-line override, for the wrapper call made by tool `name`
SubjectLineOverride(name) ==
    WrapperAnswered(name) =>
        LET m == request.args["message"] IN
        IF HasSubjectLine(m)
          THEN /\ IsTrimOf(reply.call.subject, SubSeq(FirstLine(m), 2, Len(FirstLine(m))))
               /\ IsTrimOf(reply.call.message, RemainingLines(m))
          ELSE /\ reply.call.subject = request.args["subject"]
               /\ reply.call.message = m

\* C11: send-email with a message whose first line starts with 'Subject:' calls
\* send_email with the trimmed rest of that line as subject and the trimmed remaining
\* lines as message; with any other message it passes subject and message on unchanged.
C11_SendSubjectLineOverride == SubjectLineOverride("send-email")

\* a 'Subject:' line with blanks to trim, followed by a body
C11_Witness ==
    /\ WrapperAnswered("send-email")
    /\ HasSubjectLine(request.args["message"])
    /\ reply.call.subject # <<>>
    /\ Len(reply.call.subject) < Len(FirstLine(request.args["message"])) - 1
    /\ reply.call.message # <<>>
    /\ request.args["subject"] # reply.call.subject

\* C12: create-draft with a message whose first line starts with 'Subject:' creates
\* the draft with the trimmed rest of that line as subject and the trimmed remaining
\* lines as body, as send-email does.
C12_DraftSubjectLineOverride == SubjectLineOverride("create-draft")

\* a GmailService method was called for tool `name`, whether it returned or raised
WrapperCalled(name) ==
    /\ request.kind = "call_tool"
    /\ request.name = name
    /\ reply.wrapper # "none"

\* C13: move-to-folder makes two remote requests, the label add and then the INBOX
\* removal; when the add succeeds and the removal fails the message holds the folder
\* label and still the INBOX label, and no third request follows.
C13_MoveIsTwoRequests ==
    WrapperCalled("move-to-folder") =>
        /\ reply.prov.failAt = 0 => reply.remote = 2 /\ reply.labels = {"folder"}
        /\ reply.prov.failAt = 2 => reply.remote = 2 /\ reply.labels = {"folder", "INBOX"}

\* the values by which an operation reports a failed remote request
ErrorMarkers == {"status_error", "error_text", "error_dict"}

\* one of the remote requests of the answered call failed with an HTTP error response
RemoteRequestFailed ==
    /\ request.kind = "call_tool"
    /\ reply.wrapper # "none"
    /\ \/ reply.prov.failAt \in 1..reply.remote
       \/ reply.resp.status = "500"

\* C14: when a remote request of a GmailService operation or of search_jobs fails with
\* an HTTP error response, the operation returns an error marker and does not raise.
C14_HttpErrorYieldsMarker ==
    RemoteRequestFailed => reply.outcome = "result" /\ reply.shape \in ErrorMarkers

\* the same, for every operation but read_email
C14_HoldsExceptReadEmail ==
    RemoteRequestFailed /\ reply.wrapper # "read_email"
        => reply.outcome = "result" /\ reply.shape \in ErrorMarkers

\* the tools whose result carries a structured payload, and the shape of each
PayloadTools ==
    {"get-unread-emails", "read-email", "list-drafts", "list-labels", "search-by-label",
     "list-filters", "get-filter", "search-emails", "list-folders"}

SuccessShape(name) == IF name \in {"read-email", "get-filter"} THEN "dict" ELSE "list"

\* C15: a result of a payload tool that is not marked as an error carries a payload of
\* the tool's success shape, never the error marker of the wrapper.
C15_UnmarkedPayloadHasSuccessShape ==
    request.kind = "call_tool" /\ request.name \in PayloadTools /\ reply.outcome = "result"
        => reply.artifact = SuccessShape(request.name)

\* C16: a job id in cached_jobs stays in it, and cached_jobs changes only in the step
\* that handles a search-jobs call.
C16_CacheGrowsMonotonically ==
    [][/\ \A id \in DOMAIN cached_jobs : id \in DOMAIN cached_jobs'
       /\ cached_jobs' # cached_jobs =>
             request.kind = "call_tool" /\ request.name = "search-jobs"]_vars

\* a search added nothing for an id that an earlier search had cached
C16_Witness ==
    /\ reply.wrapper = "search_jobs"
    /\ reply.resp.status = "200"
    /\ Len(reply.items) > 0
    /\ \E id \in DOMAIN cached_jobs :
          \A k \in 1..Len(reply.resp.jobs) : reply.resp.jobs[k].id # id

C19_FailureEndsCallAndIsReported ==
    RemoteRequestFailed /\ reply.wrapper # "search_jobs" =>
        /\ reply.remote = reply.prov.failAt
        /\ reply.outcome = "result"
        /\ reply.shape \in ErrorMarkers

\* the parameter of create_filter behind a key of filter_object
ParamOf(key) ==
    CASE key = "from" -> "from_email"
      [] key = "to" -> "to_email"
      [] key = "hasAttachment" -> "has_attachment"
      [] key = "excludeChats" -> "exclude_chats"
      [] key = "sizeComparison" -> "size_comparison"
      [] key = "addLabelIds" -> "add_label_ids"
      [] key = "removeLabelIds" -> "remove_label_ids"
      [] key = "forward" -> "forward_to"
      [] OTHER -> key

\* C20: every key of the criteria and action of the submitted filter has its parameter
\* supplied; sizeComparison and size are both present or both absent, and a present
\* sizeComparison is 'larger' or 'smaller'.
C20_FilterKeysOnlyIfSupplied ==
    WrapperCalled("create-filter") =>
        LET f == reply.filter IN
        /\ \A key \in f.criteria \cup f.action : Has(request.args, ParamOf(key))
        /\ "sizeComparison" \in f.criteria <=> "size" \in f.criteria
        /\ "sizeComparison" \in f.criteria => f.sizeComparison \in {"larger", "smaller"}

\* a size comparison sent in capitals together with a size
C20_Witness ==
    /\ WrapperCalled("create-filter")
    /\ Has(request.args, "size_comparison")
    /\ request.args["size_comparison"] = "LARGER"
    /\ reply.filter.criteria = {"sizeComparison", "size"}
    /\ reply.filter.sizeComparison = "larger"

\* C21: a read-email call that returns the message content leaves the message without
\* the UNREAD label; when the fetch fails no mark-as-read request is made and the
\* labels of the message are as before.
C21_ReadMarksAsRead ==
    WrapperCalled("read-email") =>
        /\ reply.shape = "dict" => "UNREAD" \notin reply.labels
        /\ reply.prov.failAt = 1 => reply.remote = 1 /\ reply.labels = UnreadInInbox

\* the same, when the mark-as-read request does not fail
C21_HoldsUnlessMarkFails ==
    WrapperCalled("read-email") /\ reply.prov.failAt # 2 =>
        /\ reply.shape = "dict" => "UNREAD" \notin reply.labels
        /\ reply.prov.failAt = 1 => reply.remote = 1 /\ reply.labels = UnreadInInbox

\* C25: no remote request of a GmailService operation runs on the event-loop thread;
\* each is handed to a worker thread and awaited.
C25_NoRequestOnEventLoop ==
    request.kind = "call_tool" /\ reply.wrapper # "none" => reply.blocking = 0

\* get_prompt has just produced its answer
PromptHandled == request.kind = "get_prompt" /\ reply = NoReply /\ reply' # NoReply

\* C22: get_prompt answers a name outside the registry with the not-found error and a
\* registered name with its template; it makes no remote request and leaves
\* cached_jobs as it is.
C22_PromptRegistryTotal ==
    [][PromptHandled =>
         /\ request.name \notin PromptsOf(adapter) => reply'.outcome = "not_found"
         /\ request.name \in PromptsOf(adapter) =>
               reply'.outcome = "result" /\ reply'.shape = "prompt"
         /\ reply'.remote = 0
         /\ cached_jobs' = cached_jobs]_vars

\* the same, for requests that carry arguments whose numbers parse
C22_HoldsWithParsableArguments ==
    [][PromptHandled /\ request.hasArgs
         /\ ~ParseFails(adapter, request.name, request.args) =>
           /\ request.name \notin PromptsOf(adapter) => reply'.outcome = "not_found"
           /\ request.name \in PromptsOf(adapter) =>
                 reply'.outcome = "result" /\ reply'.shape = "prompt"
           /\ reply'.remote = 0
           /\ cached_jobs' = cached_jobs]_vars

\* a tool call has been answered
ToolCallAnswered == request.kind = "call_tool" /\ reply.outcome # "none"

\* C23: the tool names of list_tools are the names handle_call_tool has a branch for:
\* a call of an advertised tool is never answered as an unknown tool, and a call that
\* is not answered as an unknown tool names an advertised tool.
C23_CatalogMatchesDispatcher ==
    ToolCallAnswered =>
        (request.name \in ToolsOf(adapter) <=> reply.outcome # "unknown_tool")

\* an advertised tool of the job adapter reached its wrapper
C23_Witness ==
    /\ ToolCallAnswered
    /\ adapter = "jobstack"
    /\ request.name = "analyze-job-match"
    /\ reply.wrapper = "get_cached_job"

\* the tool of the mail adapter that shares its name with a job tool is unknown there
C23_WitnessUnknown ==
    /\ ToolCallAnswered
    /\ adapter = "gmail"
    /\ request.name = "search-jobs"
    /\ reply.outcome = "unknown_tool"

\* the value sent under key k is empty: an empty string or an empty list; a number is
\* never empty
EmptyValue(k, v) ==
    CASE k \in IntKeys \cup BoolKeys -> FALSE
      [] k \in ListKeys \cup TextKeys -> v = <<>>
      [] OTHER -> v = ""

\* every key the schema of the tool lists as required is present and not empty
RequiredSupplied ==
    \A k \in RequiredOf(adapter, request.name) :
        Has(request.args, k) /\ ~EmptyValue(k, request.args[k])

\* C24: a call of a registered tool is rejected with a precondition error exactly when
\* a key that the tool's schema lists as required is missing or empty; every other
\* call reaches the wrapper method of the tool.
C24_RejectedIffRequiredMissing ==
    ToolCallAnswered /\ request.name \in ToolsOf(adapter) =>
        /\ RequiredSupplied <=> reply.outcome # "precondition_error"
        /\ RequiredSupplied => reply.wrapper # "none"

\* the same, for every tool but create-filter and for job ids other than 0
C24_HoldsForDeclaredRequirements ==
    (/\ ToolCallAnswered
     /\ request.name \in ToolsOf(adapter) \ {"create-filter"}
     /\ ~(Has(request.args, "job_id") /\ request.args["job_id"] = 0)) =>
        /\ RequiredSupplied <=> reply.outcome # "precondition_error"
        /\ RequiredSupplied => reply.wrapper # "none"

\* C26: a job that a successful search has processed is retrievable: get-job-details
\* with the id of a cached job, 0 included, returns the details of that job.
C26_CachedJobRetrievable ==
    (/\ ToolCallAnswered
     /\ adapter = "jobstack"
     /\ request.name = "get-job-details"
     /\ Has(request.args, "job_id")
     /\ request.args["job_id"] \in DOMAIN cached_jobs) =>
        reply.outcome = "result" /\ reply.shape = "job_text"

\* the same, for the ids other than 0
C26_HoldsForNonZeroIds ==
    (/\ ToolCallAnswered
     /\ adapter = "jobstack"
     /\ request.name = "get-job-details"
     /\ Has(request.args, "job_id")
     /\ request.args["job_id"] # 0
     /\ request.args["job_id"] \in DOMAIN cached_jobs) =>
        reply.outcome = "result" /\ reply.shape = "job_text"

\* search_jobs has just produced its answer
SearchHandled ==
    /\ adapter = "jobstack"
    /\ request.kind = "call_tool"
    /\ request.name = "search-jobs"
    /\ reply = NoReply
    /\ reply' # NoReply

\* C27: a search_jobs call that returns an error result leaves cached_jobs as it was
\* before the call.
C27_ErrorLeavesCacheUnchanged ==
    [][SearchHandled /\ reply'.shape = "error_dict" => cached_jobs' = cached_jobs]_vars

\* the same, for the errors that arise before the jobs of the response are processed
C27_HoldsBeforeProcessing ==
    [][(/\ SearchHandled
        /\ reply'.shape = "error_dict"
        /\ reply'.resp.status = "200" => reply'.resp.save = "first_raises")
         => cached_jobs' = cached_jobs]_vars

\* every job a successful search processed is in the cache afterwards
C26_ProcessedJobsCached ==
    reply.wrapper = "search_jobs" /\ reply.shape = "dict" =>
        \A k \in 1..Len(reply.resp.jobs) :
            ~reply.resp.jobs[k].bad => reply.resp.jobs[k].id \in DOMAIN cached_jobs

\* C28: the cache update of one search response is atomic with respect to the other
\* handlers: between two steps of the event loop no call is part-way through storing the
\* jobs of its response, no detail call has observed such a state, and cached_jobs is
\* stored into by the event-loop thread only.
C28_CacheUpdateAtomic ==
    /\ \A t \in Tasks : ~Partial(inflight[t]) /\ ~inflight[t].sawPartial
    /\ writers \subseteq {"event_loop"}

\* a detail call was answered from the cache while a search that stored two jobs was
\* still in flight
C28_Witness ==
    \E t, s \in Tasks :
        /\ inflight[t].pc = "done"
        /\ inflight[t].name \in DetailTools
        /\ inflight[t].shape = "job_text"
        /\ inflight[s].name = "search-jobs"
        /\ inflight[s].pc = "closing"
        /\ Cardinality(inflight[s].stored) >= 2
        /\ inflight[t].job_id \in inflight[s].stored
        /\ writers = {"event_loop"}

\* C29: every create-filter call that passes the validation of the dispatcher submits a
\* filter with at least one criteria field or one action field.
C29_SubmittedFilterNotEmpty ==
    WrapperCalled("create-filter") =>
        reply.filter.criteria \cup reply.filter.action # {}

\* the same, for the calls in which a supplied key has a true value
C29_HoldsWithATruthyKey ==
    (WrapperCalled("create-filter") /\ \E k \in FilterKeys \ {"size", "size_comparison"} :
        Has(request.args, k) /\ ~Falsy(k, request.args[k])) =>
        reply.filter.criteria \cup reply.filter.action # {}

\* a paginated operation was called and a page it asked for after the first carried no
\* 'messages' entry
KeylessLaterPage ==
    /\ request.kind = "call_tool"
    /\ request.name \in PagedTools
    /\ reply # NoReply
    /\ \E i \in 2..Len(reply.listReqs) : reply.prov.failAt # i /\ ~PagesSeen[i].key

\* C30: in each pagination loop a later page without a 'messages' entry contributes no
\* item and the operation still returns its list or an error marker; nothing is raised
\* to the dispatcher.
C30_KeylessPageContributesNothing ==
    KeylessLaterPage =>
        /\ reply.outcome = "result"
        /\ reply.shape \in {"list", "error_text"}

\* the same, for search_emails, which guards the read of 'messages'
C30_HoldsForSearchEmails ==
    (KeylessLaterPage /\ request.name = "search-emails") =>
        /\ reply.outcome = "result"
        /\ reply.shape \in {"list", "error_text"}

C30_SearchEmailsReached ==
    /\ KeylessLaterPage
    /\ request.name = "search-emails"
    /\ reply.shape = "list"
    /\ Len(reply.items) > 0
====
